---- MODULE Spec2Model ----
(***************************************************************************)
(* A model of progress_downloader (src/src/lib.rs): DownloadProgress       *)
(* downloads a batch of (url, path) pairs concurrently.  Each task runs    *)
(* inner_download: a closure retried by backoff::future::retry that probes *)
(* the temp file, sends a range request, streams the body through a        *)
(* BufWriter into the temp file and renames the temp file to the           *)
(* destination.                                                            *)
(*                                                                         *)
(* Units.  Byte counts are counted in blocks of 256 KiB, so the BufWriter  *)
(* capacity of 1024 * 1024 bytes is 4 blocks and the flush threshold of    *)
(* 512 * 1024 bytes is 2 blocks.  Durations are in milliseconds.           *)
(***************************************************************************)
EXTENDS Integers, Sequences, FiniteSets, TLC

VARIABLES
    downloads,   \* the argument of download: a sequence of [url, path]
    server,      \* environment: how the server of each url answers
    remote,      \* environment: the content served for each url
    fs,          \* the filesystem: absolute path -> content of the file
    fs0,         \* the filesystem as it was when download was called
    st,          \* per task: the locals of inner_download and of the retry loop
    result,      \* what download has returned, if it has
    completed    \* how many times "Download completed" was signalled

vars == <<downloads, server, remote, fs, fs0, st, result, completed>>

(***************************************************************************)
(* Bounds of the model.                                                    *)
(***************************************************************************)
MaxTasks == 2
MaxLen == 3
MaxChunk == 5

(***************************************************************************)
(* Program constants.                                                      *)
(***************************************************************************)
InitialInterval == 500
RandomizationPercent == 15
MultiplierNum == 3
MultiplierDen == 2
MaxInterval == 5000
MaxElapsedTime == 120000
BufCapacity == 4
FlushThreshold == 2

Min(a, b) == IF a < b THEN a ELSE b

(***************************************************************************)
(* Paths.  A path is a sequence of components; an absolute path starts     *)
(* with the root component "/".                                            *)
(***************************************************************************)
IsAbsolute(p) == Len(p) > 0 /\ p[1] = "/"

\* PathBuf::join: an absolute argument replaces the base.
Join(base, p) == IF IsAbsolute(p) THEN p ELSE base \o p

\* env::temp_dir()
TempDir == <<"/", "tmp">>

\* the working directory, against which a relative destination is resolved
Cwd == <<"/", "work">>

\* let temp_file = temp_dir.join(path)
TempFile(path) == Join(TempDir, path)

\* the file that rename(&temp_file, path) creates
DestFile(path) == Join(Cwd, path)

Urls == {"u"}

RelPath == <<"a.bin">>
NestedPath == <<"d", "a.bin">>
AbsPath == <<"/", "data", "a.bin">>
DestPaths == {RelPath, NestedPath, AbsPath}

(***************************************************************************)
(* Files.  fs is a function whose domain is the set of existing files.     *)
(* A file handle names the file it was opened on, its write offset and     *)
(* whether it was opened for append.                                       *)
(***************************************************************************)
NoPath == <<>>
NoHandle == [path |-> NoPath, pos |-> 0, append |-> FALSE]

Exists(f, p) == p \in DOMAIN f

\* temp_file.metadata().map(|item| item.len()).unwrap_or(0)
FileLen(f, p) == IF Exists(f, p) THEN Len(f[p]) ELSE 0

Zeros(n) == [i \in 1..n |-> 0]

\* a write of data at offset pos; a gap before pos reads as zeros
WriteAt(content, pos, data) ==
    LET padded == IF pos > Len(content)
                  THEN content \o Zeros(pos - Len(content))
                  ELSE content
    IN  SubSeq(padded, 1, pos) \o data
            \o SubSeq(padded, pos + Len(data) + 1, Len(padded))

\* the filesystem after data is written through handle h
FileWrite(f, h, data) ==
    IF ~Exists(f, h.path) \/ data = <<>> THEN f
    ELSE [f EXCEPT ![h.path] =
             IF h.append THEN @ \o data ELSE WriteAt(@, h.pos, data)]

HandleAfterWrite(h, data) == [h EXCEPT !.pos = @ + Len(data)]

\* OpenOptions::new().write(true).create(true).truncate(tr).append(ap).open(p)
FileOpen(f, p, tr) ==
    [q \in DOMAIN f \cup {p} |->
        IF q = p THEN (IF tr \/ ~Exists(f, p) THEN <<>> ELSE f[p]) ELSE f[q]]

\* tokio::fs::rename(from, to); from exists
FileRename(f, from, to) ==
    IF from = to THEN f
    ELSE [q \in (DOMAIN f \ {from}) \cup {to} |->
             IF q = to THEN f[from] ELSE f[q]]

\* an open handle follows its file through a rename; a handle on a file
\* that the rename replaces is left on an unlinked file
HandleAfterRename(h, from, to) ==
    IF from = to THEN h
    ELSE IF h.path = from THEN [h EXCEPT !.path = to]
    ELSE IF h.path = to THEN [h EXCEPT !.path = NoPath]
    ELSE h

(***************************************************************************)
(* tokio::io::BufWriter::with_capacity(1024 * 1024, file).                 *)
(* write_all(chunk) flushes the buffer first when the chunk does not fit,  *)
(* and writes a chunk of at least the capacity straight to the file.       *)
(* The result is the new buffer and the blocks that went to the file.      *)
(***************************************************************************)
BufWrite(buf, chunk) ==
    LET spill == Len(buf) + Len(chunk) > BufCapacity
        b1 == IF spill THEN <<>> ELSE buf
        o1 == IF spill THEN buf ELSE <<>>
    IN  IF Len(chunk) >= BufCapacity
        THEN [buf |-> b1, out |-> o1 \o chunk]
        ELSE [buf |-> b1 \o chunk, out |-> o1]

\* a variant: write_all alone, without the flush at the threshold
WriteChunk_unflushed(buf, chunk) == BufWrite(buf, chunk)

\* lines 151-162: write_all, then flush when buffer().len() >= 512 * 1024
WriteChunk(buf, chunk) ==
    LET w == BufWrite(buf, chunk)
    IN  IF Len(w.buf) >= FlushThreshold
        THEN [buf |-> <<>>, out |-> w.out \o w.buf]
        ELSE w

(***************************************************************************)
(* backoff::ExponentialBackoff as configured by DownloadProgress::backoff. *)
(* random is the draw of rand::random in percent.                          *)
(***************************************************************************)
RandomizedInterval(cur, random) ==
    LET delta == (RandomizationPercent * cur) \div 100
        lo == cur - delta
        hi == cur + delta
    IN  lo + (random * (hi - lo + 1)) \div 100

\* a variant: the interval grows without a cap
IncrementInterval_uncapped(cur) == (cur * MultiplierNum) \div MultiplierDen

IncrementInterval(cur) ==
    IF cur * MultiplierNum >= MaxInterval * MultiplierDen
    THEN MaxInterval
    ELSE (cur * MultiplierNum) \div MultiplierDen

\* a variant: the budget is checked before the sleep is added, not after
NextBackoff_unchecked(cur, e, random) ==
    IF e > MaxElapsedTime
    THEN [wait |-> -1, interval |-> cur]
    ELSE [wait |-> RandomizedInterval(cur, random),
          interval |-> IncrementInterval(cur)]

\* next_backoff at elapsed time e: wait is the sleep, or -1 for None
NextBackoff(cur, e, random) ==
    IF e > MaxElapsedTime
    THEN [wait |-> -1, interval |-> cur]
    ELSE LET ri == RandomizedInterval(cur, random)
         IN  [wait |-> IF e + ri <= MaxElapsedTime THEN ri ELSE -1,
              interval |-> IncrementInterval(cur)]

\* fn is_retry_error(e): e.is_timeout() || e.is_connect() || e.is_request() || e.is_decode()
is_retry_error(kind) == kind \in {"timeout", "connect", "request", "decode"}

(***************************************************************************)
(* The environment.  A server answers a request that carries              *)
(* "Range: bytes=off-" for a resource of n blocks with one of these        *)
(* status codes: "range" honours the header (206, or 416 when the range    *)
(* starts at or after the end), "plain" and "chunked" ignore it (200, the  *)
(* second without a Content-Length), "flaky" may do any of these or fail   *)
(* with 503, and "down" always fails with 503.                             *)
(***************************************************************************)
RangeStatus(off, n) == IF off < n THEN 206 ELSE 416

Statuses(kind, off, n) ==
    CASE kind = "range" -> {RangeStatus(off, n)}
      [] kind = "plain" -> {200}
      [] kind = "chunked" -> {200}
      [] kind = "flaky" -> {200, 503, RangeStatus(off, n)}
      [] OTHER -> {503}

\* response.status().is_success()
is_success(status) == status >= 200 /\ status <= 299

Content(n) == [i \in 1..n |-> i]
OldData == <<99>>

\* the errors request.send() can end with, and those of the byte stream
ConnectErrorKinds == {"connect", "builder"}
SendErrorKinds == {"request", "redirect"}
StreamErrorKinds == {"decode", "body"}

(***************************************************************************)
(* The state of one task.                                                  *)
(***************************************************************************)
NoErr == [kind |-> "none", fatal |-> FALSE]

InitTask ==
    [pc |-> "Probing",          \* where inner_download stands
     attempt |-> 0,             \* attempts started by the retry loop
     downloaded_size |-> 0,
     range |-> 0,               \* offset of the Range header last sent
     supports_resume |-> FALSE,
     total_size |-> 0,
     sent |-> 0,                \* blocks of the body the stream has yielded
     handle |-> NoHandle,
     buf |-> <<>>,              \* writer.buffer()
     bar |-> [length |-> 0, position |-> 0, finished |-> FALSE],
     current_interval |-> InitialInterval,
     started |-> 0,             \* the time at which the attempt started
     elapsed |-> 0,             \* get_elapsed_time() as last read
     wait |-> 0,                \* the sleep that followed it
     err |-> NoErr,
     renames |-> 0]

Tasks == DOMAIN downloads
TaskIds == 1..(MaxTasks + 1)
Url(t) == downloads[t].url
Path(t) == downloads[t].path
Running == result.status = "running"

\* a variant: join_all, which polls every task until all are done
Active_join_all(t) == result.status # "ok" /\ t \in Tasks

\* task t of the batch is being polled by try_join_all
Active(t) == Running /\ t \in Tasks

\* the body of the response the task is streaming
Body(t) ==
    IF st[t].supports_resume
    THEN SubSeq(remote[Url(t)], st[t].range + 1, Len(remote[Url(t)]))
    ELSE remote[Url(t)]

\* the closure returns: its locals (file, writer) are dropped
Dropped(s) ==
    [s EXCEPT !.handle = NoHandle, !.buf = <<>>]

(***************************************************************************)
(* backoff::future::retry: what becomes of the task when the closure       *)
(* returns an error at elapsed time e.                                     *)
(***************************************************************************)
AfterPermanent(s, kind) ==
    [Dropped(s) EXCEPT !.pc = "Failed", !.err = [kind |-> kind, fatal |-> TRUE]]

AfterTransient(s, kind, e, random) ==
    LET nb == NextBackoff(s.current_interval, e, random)
    IN  IF nb.wait < 0
        THEN [Dropped(s) EXCEPT !.pc = "Failed",
                                !.err = [kind |-> kind, fatal |-> FALSE],
                                !.elapsed = e, !.wait = 0,
                                !.current_interval = nb.interval]
        ELSE [Dropped(s) EXCEPT !.pc = "Probing",
                                !.err = [kind |-> kind, fatal |-> FALSE],
                                !.elapsed = e, !.wait = nb.wait,
                                !.current_interval = nb.interval]

\* the error of the task that try_join_all returns with
Outcome(t, s) ==
    IF s.pc = "Failed"
    THEN [status |-> "err", task |-> t, kind |-> s.err.kind]
    ELSE result

\* task t moves to s; a failed task ends try_join_all at once
TaskStep(t, s) ==
    /\ st' = [st EXCEPT ![t] = s]
    /\ result' = Outcome(t, s)

\* D: what the failed attempt took (d) and what rand::random draws (random)
Transient(t, s, kind, D) ==
    \E x \in D :
        TaskStep(t, AfterTransient(s, kind, s.started + x.d, x.random))

Permanent(t, s, kind) == TaskStep(t, AfterPermanent(s, kind))

(***************************************************************************)
(* The clock.  A failed attempt took d milliseconds and rand::random       *)
(* draws random percent.  LongAttempts: attempts that take long, so that   *)
(* the budget of the retry loop is spent within three attempts.            *)
(* BatchAttempts: the same for a batch, within two attempts.               *)
(* SlowAttempts: a server that answers after 30 s.  ShortAttempts: the     *)
(* connect timeout of 2 s, or a response that arrives after 8 s.           *)
(***************************************************************************)
LongAttempts == {[d |-> 40000, random |-> 50], [d |-> 121000, random |-> 50]}
BatchAttempts == {[d |-> 70000, random |-> 50]}
SlowAttempts == {[d |-> 30000, random |-> 50]}
ShortAttempts == [d : {2000, 8000}, random : {0, 99}]

(***************************************************************************)
(* One attempt: the closure given to retry (lines 76-179).                 *)
(***************************************************************************)

\* a variant: downloaded_size is read from disk once and kept across attempts
ProbeSize_carried(t) ==
    IF st[t].attempt = 0
    THEN FileLen(fs, TempFile(Path(t)))
    ELSE st[t].downloaded_size

\* line 77: the length of the temp file, read at the start of the attempt
ProbeSize(t) == FileLen(fs, TempFile(Path(t)))

\* lines 77-82: probe the temp file and build the request
Probe(t) ==
    /\ Active(t)
    /\ st[t].pc = "Probing"
    /\ TaskStep(t, [st[t] EXCEPT !.pc = "Connecting",
                                 !.attempt = @ + 1,
                                 !.started = st[t].elapsed + st[t].wait,
                                 !.err = NoErr,
                                 !.downloaded_size = ProbeSize(t),
                                 !.range = ProbeSize(t),
                                 !.sent = 0])
    /\ UNCHANGED <<downloads, server, remote, fs, fs0, completed>>

\* lines 84-92: request.send() fails before a connection is made
ConnectFails(t, D) ==
    /\ Active(t)
    /\ st[t].pc = "Connecting"
    /\ \E kind \in ConnectErrorKinds :
          IF is_retry_error(kind)
          THEN Transient(t, st[t], kind, D)
          ELSE Permanent(t, st[t], kind)
    /\ UNCHANGED <<downloads, server, remote, fs, fs0, completed>>

\* lines 18-24, 84-92: no connection within connect_timeout (2000 ms)
ConnectTimeout(t, D) ==
    /\ Active(t)
    /\ st[t].pc = "Connecting"
    /\ IF is_retry_error("timeout")
       THEN Transient(t, st[t], "timeout", D)
       ELSE Permanent(t, st[t], "timeout")
    /\ UNCHANGED <<downloads, server, remote, fs, fs0, completed>>

\* line 84: the connection is made and the request is on its way; the
\* client sets no timeout on the response
Connected(t) ==
    /\ Active(t)
    /\ st[t].pc = "Connecting"
    /\ TaskStep(t, [st[t] EXCEPT !.pc = "Requesting"])
    /\ UNCHANGED <<downloads, server, remote, fs, fs0, completed>>

\* lines 84-92: request.send() fails after the connection is made
SendFails(t, D) ==
    /\ Active(t)
    /\ st[t].pc = "Requesting"
    /\ \E kind \in SendErrorKinds :
          IF is_retry_error(kind)
          THEN Transient(t, st[t], kind, D)
          ELSE Permanent(t, st[t], kind)
    /\ UNCHANGED <<downloads, server, remote, fs, fs0, completed>>

\* a variant: the commented-out lines 95-99, a permanent error
StatusNotOk_permanent(t, D) ==
    /\ Active(t)
    /\ st[t].pc = "Requesting"
    /\ \E status \in Statuses(server[Url(t)], st[t].range, Len(remote[Url(t)])) :
          /\ ~is_success(status)
          /\ Permanent(t, st[t], "status")
    /\ UNCHANGED <<downloads, server, remote, fs, fs0, completed>>

\* lines 94-105: the response carries a status that is not a success
StatusNotOk(t, D) ==
    /\ Active(t)
    /\ st[t].pc = "Requesting"
    /\ \E status \in Statuses(server[Url(t)], st[t].range, Len(remote[Url(t)])) :
          /\ ~is_success(status)
          /\ Transient(t, st[t], "status", D)
    /\ UNCHANGED <<downloads, server, remote, fs, fs0, completed>>

\* line 109: response.content_length().unwrap_or(0)
RemainingSize(kind, status, off, n) ==
    IF kind = "chunked" THEN 0
    ELSE IF status = 206 THEN n - off
    ELSE n

\* lines 94-113: a success response
ResponseOk(t) ==
    /\ Active(t)
    /\ st[t].pc = "Requesting"
    /\ \E status \in Statuses(server[Url(t)], st[t].range, Len(remote[Url(t)])) :
          /\ is_success(status)
          /\ TaskStep(t, [st[t] EXCEPT
                 !.pc = "Opening",
                 !.supports_resume = (status = 206),
                 !.total_size =
                     RemainingSize(server[Url(t)], status, st[t].range,
                                   Len(remote[Url(t)])) + st[t].downloaded_size])
    /\ UNCHANGED <<downloads, server, remote, fs, fs0, completed>>

\* a variant: the open mode ignores supports_resume
OpenMode_append(s) ==
    [truncate |-> s.downloaded_size = 0, append |-> s.downloaded_size > 0]

\* lines 118-119: .truncate(..).append(..)
OpenMode(s) ==
    [truncate |-> ~s.supports_resume \/ s.downloaded_size = 0,
     append |-> s.supports_resume /\ s.downloaded_size > 0]

\* lines 115-129: open the temp file, wrap it, initialise the progress bar
OpenFile(t) ==
    /\ Active(t)
    /\ st[t].pc = "Opening"
    /\ fs' = FileOpen(fs, TempFile(Path(t)), OpenMode(st[t]).truncate)
    /\ TaskStep(t, [st[t] EXCEPT
           !.pc = "Streaming",
           !.handle = [path |-> TempFile(Path(t)), pos |-> 0,
                       append |-> OpenMode(st[t]).append],
           !.buf = <<>>,
           !.bar = [length |-> st[t].total_size,
                    position |-> st[t].downloaded_size,
                    finished |-> FALSE]])
    /\ UNCHANGED <<downloads, server, remote, fs0, completed>>

\* a variant: a failed open is reported as a transient error
OpenFails_retry(t) ==
    /\ Active(t)
    /\ st[t].pc = "Opening"
    /\ Transient(t, st[t], "io", LongAttempts)
    /\ UNCHANGED <<downloads, server, remote, fs, fs0, completed>>

\* lines 115-122: the open fails
OpenFails(t) ==
    /\ Active(t)
    /\ st[t].pc = "Opening"
    /\ Permanent(t, st[t], "io")
    /\ UNCHANGED <<downloads, server, remote, fs, fs0, completed>>

\* DownloadState::update_progress(len, &progress_bar)
UpdateProgress(bar, n) == [bar EXCEPT !.position = @ + n]

\* the chunks the stream may yield next
NextChunks(t) ==
    {SubSeq(Body(t), st[t].sent + 1, st[t].sent + c) :
        c \in 1..Min(MaxChunk, Len(Body(t)) - st[t].sent)}

\* lines 145-149: the bookkeeping of one chunk
Counted(s, chunk) ==
    [s EXCEPT !.downloaded_size = @ + Len(chunk),
              !.sent = @ + Len(chunk),
              !.bar = UpdateProgress(@, Len(chunk))]

\* lines 133-163: one turn of the loop
ReceiveChunk(t) ==
    /\ Active(t)
    /\ st[t].pc = "Streaming"
    /\ \E chunk \in NextChunks(t) :
          LET w == WriteChunk(st[t].buf, chunk)
          IN  /\ fs' = FileWrite(fs, st[t].handle, w.out)
              /\ TaskStep(t, [Counted(st[t], chunk) EXCEPT
                     !.buf = w.buf,
                     !.handle = HandleAfterWrite(@, w.out)])
    /\ UNCHANGED <<downloads, server, remote, fs0, completed>>

\* lines 151-162: write_all or flush fails after k blocks reached the file
ChunkIoFails(t) ==
    /\ Active(t)
    /\ st[t].pc = "Streaming"
    /\ \E chunk \in NextChunks(t) :
          LET w == WriteChunk(st[t].buf, chunk)
          IN  /\ w.out # <<>>
              /\ \E k \in 0..(Len(w.out) - 1) :
                    fs' = FileWrite(fs, st[t].handle, SubSeq(w.out, 1, k))
              /\ Permanent(t, Counted(st[t], chunk), "io")
    /\ UNCHANGED <<downloads, server, remote, fs0, completed>>

\* lines 133-135: no chunk within 500 ms
ChunkTimeout(t, D) ==
    /\ Active(t)
    /\ st[t].pc = "Streaming"
    /\ Transient(t, st[t], "elapsed", D)
    /\ UNCHANGED <<downloads, server, remote, fs, fs0, completed>>

\* lines 136-143: the stream yields an error
ChunkError(t, D) ==
    /\ Active(t)
    /\ st[t].pc = "Streaming"
    /\ \E kind \in StreamErrorKinds :
          IF is_retry_error(kind)
          THEN Transient(t, st[t], kind, D)
          ELSE Permanent(t, st[t], kind)
    /\ UNCHANGED <<downloads, server, remote, fs, fs0, completed>>

\* lines 165-171: the stream is exhausted; flush, then finish the bar
StreamEnd(t) ==
    /\ Active(t)
    /\ st[t].pc = "Streaming"
    /\ st[t].sent = Len(Body(t))
    /\ fs' = FileWrite(fs, st[t].handle, st[t].buf)
    /\ TaskStep(t, [st[t] EXCEPT
           !.pc = "Finalizing",
           !.buf = <<>>,
           !.handle = HandleAfterWrite(@, st[t].buf),
           !.bar = [@ EXCEPT !.finished = TRUE]])
    /\ UNCHANGED <<downloads, server, remote, fs0, completed>>

\* lines 166-169: the last flush fails after k blocks reached the file
FinalFlushFails(t) ==
    /\ Active(t)
    /\ st[t].pc = "Streaming"
    /\ st[t].sent = Len(Body(t))
    /\ \E k \in 0..Len(st[t].buf) :
          /\ k < Len(st[t].buf) \/ k = 0
          /\ fs' = FileWrite(fs, st[t].handle, SubSeq(st[t].buf, 1, k))
    /\ Permanent(t, st[t], "io")
    /\ UNCHANGED <<downloads, server, remote, fs0, completed>>

\* lines 173-178: rename the temp file to the destination
Rename(t) ==
    /\ Active(t)
    /\ st[t].pc = "Finalizing"
    /\ Exists(fs, TempFile(Path(t)))
    /\ fs' = FileRename(fs, TempFile(Path(t)), DestFile(Path(t)))
    /\ st' = [u \in DOMAIN st |->
                 IF u = t
                 THEN [Dropped(st[t]) EXCEPT !.pc = "Complete", !.renames = @ + 1]
                 ELSE [st[u] EXCEPT !.handle =
                          HandleAfterRename(@, TempFile(Path(t)), DestFile(Path(t)))]]
    /\ UNCHANGED <<downloads, server, remote, fs0, result, completed>>

\* lines 173-175: the rename fails
RenameFails(t) ==
    /\ Active(t)
    /\ st[t].pc = "Finalizing"
    /\ Permanent(t, st[t], "io")
    /\ UNCHANGED <<downloads, server, remote, fs, fs0, completed>>

(***************************************************************************)
(* download (lines 45-56).                                                 *)
(***************************************************************************)
\* a variant: the join is over as soon as one task is done
AllJoined_any == Tasks = {} \/ \E t \in Tasks : st[t].pc = "Complete"

\* try_join_all(futures).await? has every task's Ok
AllJoined == \A t \in Tasks : st[t].pc = "Complete"

\* lines 50-55: all tasks are done, the display is cleared, success
DownloadReturn ==
    /\ Running
    /\ AllJoined
    /\ result' = [status |-> "ok", task |-> 0, kind |-> "none"]
    /\ completed' = completed + 1
    /\ UNCHANGED <<downloads, server, remote, fs, fs0, st>>

\* line 52: multi_progress.clear()? fails
ClearFails ==
    /\ Running
    /\ AllJoined
    /\ result' = [status |-> "err", task |-> 0, kind |-> "io"]
    /\ UNCHANGED <<downloads, server, remote, fs, fs0, st, completed>>

(***************************************************************************)
(* What outlives download.  When try_join_all returns the first error the  *)
(* futures of the sibling tasks are dropped where they are suspended.  A   *)
(* tokio::fs operation runs on the blocking pool (spawn_blocking) from the *)
(* first poll of its future, and dropping the future does not cancel it:   *)
(* an open (line 120) or a rename (line 173) a sibling was awaiting still  *)
(* takes effect.  A sibling suspended on the network has nothing pending.  *)
(***************************************************************************)
Aborted == result.status = "err"

\* lines 115-121: the open a dropped task was awaiting takes effect
DetachedOpen(t) ==
    /\ Aborted
    /\ t \in Tasks
    /\ st[t].pc = "Opening"
    /\ fs' = FileOpen(fs, TempFile(Path(t)), OpenMode(st[t]).truncate)
    /\ st' = [st EXCEPT ![t] = [Dropped(@) EXCEPT !.pc = "Dropped"]]
    /\ UNCHANGED <<downloads, server, remote, fs0, result, completed>>

\* lines 173-175: the rename a dropped task was awaiting takes effect
DetachedRename(t) ==
    /\ Aborted
    /\ t \in Tasks
    /\ st[t].pc = "Finalizing"
    /\ Exists(fs, TempFile(Path(t)))
    /\ fs' = FileRename(fs, TempFile(Path(t)), DestFile(Path(t)))
    /\ st' = [u \in DOMAIN st |->
                 IF u = t
                 THEN [Dropped(st[t]) EXCEPT !.pc = "Dropped", !.renames = @ + 1]
                 ELSE [st[u] EXCEPT !.handle =
                          HandleAfterRename(@, TempFile(Path(t)), DestFile(Path(t)))]]
    /\ UNCHANGED <<downloads, server, remote, fs0, result, completed>>

(***************************************************************************)
(* Initial states: the argument of download, the servers, and the files    *)
(* found on disk.  The temp file of a path is absent (-1) or holds the     *)
(* first blocks of the remote content, left there by an earlier run; the   *)
(* destination may hold an older file.                                     *)
(***************************************************************************)
PathsOf(d) == {d[i].path : i \in DOMAIN d}

Inputs(paths, n) == [1..n -> [url : Urls, path : paths]]

ContentOf(d, r, p) == r[d[CHOOSE i \in DOMAIN d : d[i].path = p].url]

InitFs(d, r, pre, old) ==
    LET temps == {TempFile(p) : p \in {x \in PathsOf(d) : pre[x] >= 0}}
        dests == {DestFile(p) : p \in {x \in PathsOf(d) : old[x]}} \ temps
    IN  [q \in temps \cup dests |->
            IF q \in temps
            THEN LET p == CHOOSE x \in PathsOf(d) : TempFile(x) = q
                 IN  SubSeq(ContentOf(d, r, p), 1, pre[p])
            ELSE OldData]

Idle == [status |-> "running", task |-> 0, kind |-> "none"]

InitWith(inputs, kinds, lens, pres, olds) ==
    /\ downloads \in inputs
    /\ server \in [Urls -> kinds]
    /\ remote \in [Urls -> {Content(n) : n \in lens}]
    /\ \E pre \in [PathsOf(downloads) -> pres], old \in [PathsOf(downloads) -> olds] :
          /\ \A p \in PathsOf(downloads) : pre[p] <= Len(ContentOf(downloads, remote, p))
          /\ fs0 = InitFs(downloads, remote, pre, old)
    /\ fs = fs0
    /\ st = [t \in DOMAIN downloads |-> InitTask]
    /\ result = Idle
    /\ completed = 0

(***************************************************************************)
(* Spec: a batch of up to MaxTasks tasks, each of BatchLen blocks.         *)
(***************************************************************************)
BatchLen == 2

Init ==
    InitWith(UNION {Inputs(DestPaths, n) : n \in 0..MaxTasks},
             {"flaky"}, {BatchLen}, {-1, BatchLen}, {FALSE})

\* every step of download on a clock given by D
Step(D) ==
    \/ \E t \in TaskIds : Probe(t)
    \/ \E t \in TaskIds : ConnectFails(t, D)
    \/ \E t \in TaskIds : ConnectTimeout(t, D)
    \/ \E t \in TaskIds : Connected(t)
    \/ \E t \in TaskIds : SendFails(t, D)
    \/ \E t \in TaskIds : StatusNotOk(t, D)
    \/ \E t \in TaskIds : ResponseOk(t)
    \/ \E t \in TaskIds : OpenFile(t)
    \/ \E t \in TaskIds : OpenFails(t)
    \/ \E t \in TaskIds : ReceiveChunk(t)
    \/ \E t \in TaskIds : ChunkIoFails(t)
    \/ \E t \in TaskIds : ChunkTimeout(t, D)
    \/ \E t \in TaskIds : ChunkError(t, D)
    \/ \E t \in TaskIds : StreamEnd(t)
    \/ \E t \in TaskIds : FinalFlushFails(t)
    \/ \E t \in TaskIds : Rename(t)
    \/ \E t \in TaskIds : RenameFails(t)
    \/ DownloadReturn
    \/ ClearFails

\* a batch: the steps of download and what its dropped tasks leave behind
BatchNext ==
    \/ Step(BatchAttempts)
    \/ \E t \in TaskIds : DetachedOpen(t)
    \/ \E t \in TaskIds : DetachedRename(t)

Spec == Init /\ [][BatchNext]_vars

Next == Step(LongAttempts)

(***************************************************************************)
(* SpecTransfer: one task, a file of up to MaxLen blocks, any server and   *)
(* any failure.                                                            *)
(***************************************************************************)
InitTransfer ==
    InitWith(Inputs(DestPaths, 1), {"range", "plain", "chunked", "flaky"},
             1..MaxLen, -1..MaxLen, BOOLEAN)

SpecTransfer == InitTransfer /\ [][Next]_vars

(***************************************************************************)
(* SpecMany: a batch of MaxTasks + 1 tasks on a network and a disk that    *)
(* do not fail.                                                            *)
(***************************************************************************)
InitMany ==
    InitWith(Inputs(DestPaths, MaxTasks + 1), {"range", "plain"}, {BatchLen},
             {-1}, {FALSE})

NextMany ==
    \/ \E t \in TaskIds : Probe(t)
    \/ \E t \in TaskIds : Connected(t)
    \/ \E t \in TaskIds : ResponseOk(t)
    \/ \E t \in TaskIds : OpenFile(t)
    \/ \E t \in TaskIds : ReceiveChunk(t)
    \/ \E t \in TaskIds : StreamEnd(t)
    \/ \E t \in TaskIds : Rename(t)
    \/ DownloadReturn

SpecMany == InitMany /\ [][NextMany]_vars

\* the task holds a response and has not yet exhausted its stream or failed
InStreaming(t) == st[t].pc \in {"Opening", "Streaming"}

\* C1: with more tasks than max_concurrent (2, the default of the
\* specification) at most max_concurrent tasks are in the streaming phase in
\* every reachable state.
ConcurrencyBound == Cardinality({t \in Tasks : InStreaming(t)}) <= 2

\* the temp file and the destination of task t
Temp(t) == TempFile(Path(t))
Dest(t) == DestFile(Path(t))

\* the file at path p is as it was when download was called
Untouched(p) ==
    /\ Exists(fs, p) <=> Exists(fs0, p)
    /\ Exists(fs, p) => fs[p] = fs0[p]

\* C2: before the rename of a task its destination is absent or unchanged
\* (it never holds partial data), and after the rename it holds the full
\* remote content.
AtomicDestination ==
    \A t \in Tasks :
        /\ st[t].renames = 0 => Untouched(Dest(t))
        /\ st[t].renames > 0 =>
              Exists(fs, Dest(t)) /\ fs[Dest(t)] = remote[Url(t)]

\* C3: the probe of every attempt, the first and every retry, reads
\* downloaded_size from the disk: it is the length of the temp file at that
\* instant (0 if absent) and the Range header of the request carries it.
ProbeRereadsDisk ==
    [][\A t \in TaskIds :
          (t \in Tasks /\ st[t].pc = "Probing" /\ st'[t].pc = "Connecting") =>
              /\ st'[t].downloaded_size = FileLen(fs, Temp(t))
              /\ st'[t].range = FileLen(fs, Temp(t))]_vars

\* a retry whose request carries the length on disk, which is less than the
\* position the previous attempt had reached in memory
RetryReadsDisk ==
    \E t \in Tasks :
        /\ st[t].pc = "Connecting"
        /\ st[t].attempt >= 2
        /\ st[t].range = FileLen(fs, Temp(t))
        /\ st[t].range < st[t].bar.position

(***************************************************************************)
(* SpecResume: one task resumes a temp file of L blocks, 0 <= L <= N, on   *)
(* a server that honours range requests; the network and the disk do not   *)
(* fail.                                                                   *)
(***************************************************************************)
InitResume ==
    InitWith(Inputs(DestPaths, 1), {"range"}, 1..MaxLen, 0..MaxLen, BOOLEAN)

NextResume ==
    \/ \E t \in TaskIds : Probe(t)
    \/ \E t \in TaskIds : Connected(t)
    \/ \E t \in TaskIds : StatusNotOk(t, SlowAttempts)
    \/ \E t \in TaskIds : ResponseOk(t)
    \/ \E t \in TaskIds : OpenFile(t)
    \/ \E t \in TaskIds : ReceiveChunk(t)
    \/ \E t \in TaskIds : StreamEnd(t)
    \/ \E t \in TaskIds : Rename(t)
    \/ DownloadReturn

SpecResume == InitResume /\ [][NextResume]_vars

\* C4: with L blocks in the temp file the request carries offset L, the
\* transfer does not fail, and the completed file is the remote content of N
\* blocks, its first L blocks being those found on disk.
ResumeCorrectness ==
    \A t \in Tasks :
        LET L == FileLen(fs0, Temp(t))
        IN  /\ st[t].attempt >= 1 => st[t].range = L
            /\ st[t].pc # "Failed"
            /\ st[t].pc = "Complete" =>
                  /\ fs[Dest(t)] = remote[Url(t)]
                  /\ SubSeq(fs[Dest(t)], 1, L) = fs0[Temp(t)]

\* C5: when a request with offset L > 0 is answered with a full response the
\* temp file holds the body received so far and nothing before it, and the
\* completed file is the body alone.
FallbackTruncates ==
    \A t \in Tasks :
        (st[t].range > 0 /\ ~st[t].supports_resume) =>
            /\ st[t].pc = "Streaming" =>
                  fs[Temp(t)] \o st[t].buf = SubSeq(remote[Url(t)], 1, st[t].sent)
            /\ st[t].pc = "Finalizing" => fs[Temp(t)] = remote[Url(t)]
            /\ st[t].pc = "Complete" => fs[Dest(t)] = remote[Url(t)]

\* a transfer completed from a full response to a request with an offset
FallbackCompleted ==
    \E t \in Tasks :
        /\ st[t].pc = "Complete"
        /\ st[t].range > 0
        /\ ~st[t].supports_resume
        /\ fs[Dest(t)] = remote[Url(t)]

\* C6: a failure of the local filesystem ends the task at once with a fatal
\* error, and no further attempt is made whatever the retry budget.
LocalFailureIsFatal ==
    [][\A t \in TaskIds :
          (t \in Tasks /\ st'[t].err.kind = "io") =>
              /\ st'[t].pc = "Failed"
              /\ st'[t].err.fatal
              /\ st'[t].attempt = st[t].attempt]_vars

\* a task ended by a filesystem failure with retry budget to spare
FailedOnDisk ==
    \E t \in Tasks :
        /\ st[t].pc = "Failed"
        /\ st[t].err.kind = "io"
        /\ st[t].started + MaxInterval < MaxElapsedTime

\* the failures of the network: connect, timeout, request and decode errors,
\* the per-chunk timeout and a status that is not a success
TransientKinds == {"connect", "timeout", "request", "decode", "elapsed", "status"}

\* the longest sleep next_backoff may draw from interval cur
LongestWait(cur) == cur + (RandomizationPercent * cur) \div 100 + 1

\* C7: a failure of the network is retryable and never fatal: it is followed
\* by a new attempt from Probing unless the retry budget is exhausted.
TransientIsRetried ==
    [][\A t \in TaskIds :
          (t \in Tasks /\ st[t].pc \in {"Connecting", "Requesting", "Streaming"}
             /\ st'[t].err.kind \in TransientKinds) =>
              /\ ~st'[t].err.fatal
              /\ \/ /\ st'[t].pc = "Probing"
                    /\ st'[t].elapsed + st'[t].wait <= MaxElapsedTime
                 \/ /\ st'[t].pc = "Failed"
                    /\ st'[t].elapsed + LongestWait(st[t].current_interval)
                          > MaxElapsedTime]_vars

\* a retry is scheduled after a failure of the network
RetryScheduled ==
    \E t \in Tasks :
        /\ st[t].pc = "Probing"
        /\ st[t].err.kind \in TransientKinds
        /\ st[t].attempt >= 1
        /\ st[t].wait > 0

(***************************************************************************)
(* SpecBackoff: one task whose every attempt fails, on a clock that shows  *)
(* what each attempt took.                                                 *)
(***************************************************************************)
InitBackoff == InitWith(Inputs({RelPath}, 1), {"down"}, {BatchLen}, {-1}, {FALSE})

NextFailing ==
    \/ \E t \in TaskIds : Probe(t)
    \/ \E t \in TaskIds : ConnectFails(t, ShortAttempts)
    \/ \E t \in TaskIds : ConnectTimeout(t, ShortAttempts)
    \/ \E t \in TaskIds : Connected(t)
    \/ \E t \in TaskIds : SendFails(t, ShortAttempts)
    \/ \E t \in TaskIds : StatusNotOk(t, ShortAttempts)

SpecBackoff == InitBackoff /\ [][NextFailing]_vars

\* the task gave up: the retry loop returned the last transient error
GaveUp(t) == st[t].pc = "Failed" /\ ~st[t].err.fatal

InitFair == InitWith(Inputs({RelPath}, 1), {"flaky"}, 1..MaxLen, {-1}, {FALSE})

FairSpec ==
    /\ InitFair
    /\ [][Next]_vars
    /\ WF_vars(Probe(1))
    /\ WF_vars(ConnectTimeout(1, LongAttempts))
    /\ WF_vars(ChunkTimeout(1, LongAttempts))
    /\ WF_vars(OpenFile(1) \/ OpenFails(1))
    /\ WF_vars(Rename(1) \/ RenameFails(1))
    /\ WF_vars(DownloadReturn \/ ClearFails)

\* the attempt of task 1 waits for the network
Waiting == st[1].pc \in {"Connecting", "Requesting", "Streaming"}

\* the attempt of task 1 is over: it failed, or the stream is exhausted
AttemptOver == st[1].pc \in {"Probing", "Failed", "Finalizing", "Complete"}

\* C9: no attempt stalls: an attempt that waits for a response or for the
\* next chunk leaves that state, so every attempt ends in success or failure.
NoSilentStall == Waiting ~> AttemptOver

\* the waits that a timer bounds do end: connecting, and the next chunk
TimedWaitsEnd ==
    /\ (st[1].pc = "Connecting") ~> (st[1].pc # "Connecting")
    /\ (st[1].pc = "Streaming") ~> AttemptOver

\* C10: download returns success only when every task has renamed its temp
\* file to the destination; completion is signalled once, with that success,
\* and never when a task has failed.
SuccessAfterAllRenamed ==
    /\ result.status = "ok" =>
          \A t \in Tasks : st[t].pc = "Complete" /\ st[t].renames = 1
    /\ completed = (IF result.status = "ok" THEN 1 ELSE 0)
    /\ completed > 0 => \A t \in Tasks : st[t].pc # "Failed"

\* a batch of MaxTasks tasks ended in success
BatchSucceeded ==
    /\ result.status = "ok"
    /\ completed = 1
    /\ Len(downloads) = MaxTasks

\* the step in which task t ends with a terminal error
Fails(t) == t \in Tasks /\ st[t].pc # "Failed" /\ st'[t].pc = "Failed"

\* C11: when a task ends with a terminal error download returns failure at
\* once, the error it carries is the terminal error of that task, no task
\* had failed before it, and the failure returned never changes afterwards.
FirstFailureWins ==
    [][/\ \A t \in TaskIds :
             Fails(t) =>
                 /\ result' = [status |-> "err", task |-> t,
                               kind |-> st'[t].err.kind]
                 /\ \A u \in Tasks : st[u].pc # "Failed"
       /\ Aborted => result' = result]_vars

\* download returned the error of a task whose retry budget was exhausted
\* while a sibling was still streaming
FailedFirst ==
    \E t \in Tasks, u \in Tasks :
        /\ Aborted
        /\ result.task = t
        /\ st[t].pc = "Failed"
        /\ ~st[t].err.fatal
        /\ result.kind = st[t].err.kind
        /\ st[u].pc = "Streaming"

\* C12: once download has returned the first failure no sibling task takes
\* a further step: the tasks and the files stay as they are.
AbortStopsSiblings ==
    [][Aborted => (st' = st /\ fs' = fs)]_vars

\* C13: the temp file of a task is owned by that task alone: whatever the
\* list of pairs, no two tasks of a batch have the same file open.
ExclusiveTemp ==
    \A t \in Tasks, u \in Tasks :
        (t # u /\ st[t].handle.path # NoPath) =>
            st[t].handle.path # st[u].handle.path

\* the last component of a path
Basename(p) == <<p[Len(p)]>>

\* C14: the file a task opens for a destination, be it relative, nested or
\* absolute, is the temporary directory joined with the basename of the
\* destination, and it is not the destination.
TempIsBasenameInTempDir ==
    \A t \in Tasks :
        st[t].pc = "Streaming" =>
            /\ st[t].handle.path = TempDir \o Basename(Path(t))
            /\ st[t].handle.path # Dest(t)

\* C15: the progress bar is finished with the completion message only after
\* the rename: whenever it is finished the destination holds the download
\* and the task has returned success.
FinishedAfterRename ==
    \A t \in Tasks :
        st[t].bar.finished =>
            /\ st[t].pc = "Complete"
            /\ Exists(fs, Dest(t))
            /\ fs[Dest(t)] = remote[Url(t)]

(***************************************************************************)
(* SpecBuffer: one task streams a body longer than the capacity of the     *)
(* BufWriter, in chunks of 1 to MaxChunk blocks, some shorter than the     *)
(* flush threshold and some longer than the capacity; a chunk may time     *)
(* out, and the next attempt resumes or starts over.                       *)
(***************************************************************************)
LongLen == 6

InitBuffer ==
    InitWith(Inputs({RelPath}, 1), {"range", "plain"}, {LongLen - 1, LongLen},
             {-1}, {FALSE})

NextBuffer ==
    \/ \E t \in TaskIds : Probe(t)
    \/ \E t \in TaskIds : Connected(t)
    \/ \E t \in TaskIds : ResponseOk(t)
    \/ \E t \in TaskIds : OpenFile(t)
    \/ \E t \in TaskIds : ReceiveChunk(t)
    \/ \E t \in TaskIds : ChunkTimeout(t, LongAttempts)
    \/ \E t \in TaskIds : StreamEnd(t)
    \/ \E t \in TaskIds : Rename(t)
    \/ DownloadReturn

SpecBuffer == InitBuffer /\ [][NextBuffer]_vars

\* C16: in the Streaming phase the bytes held in the buffered writer never
\* exceed flush_threshold by more than the size of one chunk: neither after
\* write_all has taken the chunk, nor when the loop asks for the next one.
FlushBound ==
    [][\A t \in TaskIds :
          (t \in Tasks /\ st[t].pc = "Streaming" /\ st'[t].pc = "Streaming"
             /\ st'[t].sent > st[t].sent) =>
              LET chunk == SubSeq(Body(t), st[t].sent + 1, st'[t].sent)
              IN  /\ Len(BufWrite(st[t].buf, chunk).buf)
                        <= FlushThreshold + Len(chunk)
                  /\ Len(st'[t].buf) <= FlushThreshold + Len(chunk)]_vars

\* the writer holds unflushed bytes after more than its capacity has gone
\* through it
BufferedAfterFlush ==
    \E t \in Tasks :
        /\ st[t].pc = "Streaming"
        /\ st[t].buf # <<>>
        /\ st[t].attempt = 1
        /\ FileLen(fs, Temp(t)) > BufCapacity

\* the step in which the retry loop of task t schedules a retry
Retries(t) ==
    /\ t \in Tasks
    /\ st[t].pc \in {"Connecting", "Requesting", "Streaming"}
    /\ st'[t].pc = "Probing"

\* the shortest sleep next_backoff may draw from interval cur
ShortestWait(cur) == cur - (RandomizationPercent * cur) \div 100

\* C17 as stated: the sleep before a retry is at least the sleep before the
\* attempt that failed, unless that one had reached the cap.
WaitsNonDecreasing ==
    [][\A t \in TaskIds :
          (Retries(t) /\ st[t].attempt >= 2) =>
              st'[t].wait >= Min(st[t].wait, MaxInterval)]_vars

\* C17 as amended: the interval from which the sleep is drawn never
\* decreases and never exceeds the cap; every sleep lies within 15% of its
\* interval (so it may exceed the cap by 15%); and the sleeps themselves are
\* non-decreasing as long as the interval is below the cap.
IntervalsNonDecreasing ==
    [][\A t \in TaskIds :
          Retries(t) =>
              /\ st'[t].current_interval >= st[t].current_interval
              /\ st'[t].current_interval <= MaxInterval
              /\ st'[t].wait >= ShortestWait(st[t].current_interval)
              /\ st'[t].wait <= LongestWait(st[t].current_interval)
              /\ (st[t].attempt >= 2 /\ st[t].current_interval < MaxInterval)
                    => st'[t].wait >= st[t].wait]_vars

\* a retry at the cap whose sleep is longer than the cap
SleepAboveCap ==
    \E t \in Tasks :
        /\ st[t].pc = "Probing"
        /\ st[t].attempt >= 2
        /\ st[t].current_interval = MaxInterval
        /\ st[t].wait > MaxInterval

(***************************************************************************)
(* SpecPrefix: a batch of MaxTasks tasks with pairwise distinct            *)
(* destinations, each fetching MaxLen blocks from a server that answers    *)
(* an attempt with a partial or a full response as it pleases; the temp    *)
(* file is absent or holds the first block; chunks time out and attempts   *)
(* are retried.                                                            *)
(***************************************************************************)
Distinct(d) == \A i \in DOMAIN d, j \in DOMAIN d : i # j => d[i].path # d[j].path

InitPrefix ==
    InitWith({d \in Inputs(DestPaths, MaxTasks) : Distinct(d)},
             {"flaky"}, {MaxLen}, {-1, 1}, {FALSE})

NextPrefix ==
    \/ \E t \in TaskIds : Probe(t)
    \/ \E t \in TaskIds : Connected(t)
    \/ \E t \in TaskIds : StatusNotOk(t, BatchAttempts)
    \/ \E t \in TaskIds : ResponseOk(t)
    \/ \E t \in TaskIds : OpenFile(t)
    \/ \E t \in TaskIds : ReceiveChunk(t)
    \/ \E t \in TaskIds : ChunkIoFails(t)
    \/ \E t \in TaskIds : ChunkTimeout(t, BatchAttempts)
    \/ \E t \in TaskIds : StreamEnd(t)
    \/ \E t \in TaskIds : Rename(t)
    \/ \E t \in TaskIds : DetachedOpen(t)
    \/ \E t \in TaskIds : DetachedRename(t)
    \/ DownloadReturn

SpecPrefix == InitPrefix /\ [][NextPrefix]_vars

IsPrefix(a, b) == Len(a) <= Len(b) /\ a = SubSeq(b, 1, Len(a))

SizesAgreeOnCompletion ==
    \A t \in Tasks :
        (/\ st[t].pc = "Complete"
         /\ server[Url(t)] # "chunked"
         /\ Exists(fs0, Temp(t)) => IsPrefix(fs0[Temp(t)], remote[Url(t)]))
        => /\ st[t].downloaded_size = st[t].total_size
           /\ st[t].downloaded_size = FileLen(fs, Dest(t))

====
